---- MODULE Spec2Model ----
(***************************************************************************)
(* A model of scripts/generate_mono_signatures.py: the extraction of       *)
(* MONO_API declarations from C headers and the classification of their    *)
(* return and parameter types into marshaling categories.                  *)
(*                                                                         *)
(* A Python str is modelled as a sequence of one-character strings, so     *)
(* that the regular-expression substitutions, the splitting and the        *)
(* classification are computed character by character as the code does.   *)
(***************************************************************************)
EXTENDS Integers, Sequences, FiniteSets, TLC

VARIABLES
    \* generate(): the headers on disk and the run's state
    files,          \* path -> [enums: the typedef'd enum names, decls: the MONO_API declarations]
    pc,             \* "idle" | "start" | "header" | "decls" | "done" | "failed"
    include_files,  \* the sorted list of header paths
    hi,             \* index of the header being processed
    di,             \* index of the next declaration in that header
    enum_types,     \* generate's enum_types set
    functions,      \* generate's functions dict: name -> [retType, argTypes]
    entries,        \* the names in the order the output lists them
    \* map_native_type / normalize_type applied to one type string
    cpc,            \* "idle" | "raw" | "norm" | "done"
    type_name,      \* the type string
    enum_set,       \* the enum set handed to map_native_type
    category,       \* the result ("" until classified)
    \* parse_parameters applied to one parameter text
    ppc,            \* "idle" | "in" | "split" | "done"
    param_text,     \* the parameter text
    params,         \* the fragments of the scanning loop
    normalized      \* the resulting parameter types

vars == <<files, pc, include_files, hi, di, enum_types, functions, entries,
          cpc, type_name, enum_set, category,
          ppc, param_text, params, normalized>>

genVars == <<files, pc, include_files, hi, di, enum_types, functions, entries>>
clsVars == <<cpc, type_name, enum_set, category>>
parVars == <<ppc, param_text, params, normalized>>

-----------------------------------------------------------------------------
(* Characters and strings *)

Lower == {"a","b","c","d","e","f","g","h","i","j","k","l","m",
          "n","o","p","q","r","s","t","u","v","w","x","y","z"}
Upper == {"A","B","C","D","E","F","G","H","I","J","K","L","M",
          "N","O","P","Q","R","S","T","U","V","W","X","Y","Z"}
DecDigits == {"0","1","2","3","4","5","6","7","8","9"}
\* characters for which str.isdigit() is true and which int() rejects: the
\* superscript two, U+00B2, a single character that is written "^2" here
SuperscriptTwo == "^2"
SuperDigits == {SuperscriptTwo}

LowerOf ==
    ("A" :> "a") @@ ("B" :> "b") @@ ("C" :> "c") @@ ("D" :> "d") @@ ("E" :> "e") @@
    ("F" :> "f") @@ ("G" :> "g") @@ ("H" :> "h") @@ ("I" :> "i") @@ ("J" :> "j") @@
    ("K" :> "k") @@ ("L" :> "l") @@ ("M" :> "m") @@ ("N" :> "n") @@ ("O" :> "o") @@
    ("P" :> "p") @@ ("Q" :> "q") @@ ("R" :> "r") @@ ("S" :> "s") @@ ("T" :> "t") @@
    ("U" :> "u") @@ ("V" :> "v") @@ ("W" :> "w") @@ ("X" :> "x") @@ ("Y" :> "y") @@
    ("Z" :> "z")

DecVal ==
    ("0" :> 0) @@ ("1" :> 1) @@ ("2" :> 2) @@ ("3" :> 3) @@ ("4" :> 4) @@
    ("5" :> 5) @@ ("6" :> 6) @@ ("7" :> 7) @@ ("8" :> 8) @@ ("9" :> 9)

\* \s
IsSpace(c) == c \in {" ", "\t", "\n"}
\* \w (Unicode matching, the default for a str pattern)
IsWordChar(c) == c \in Lower \cup Upper \cup DecDigits \cup SuperDigits \cup {"_"}
\* str.isdigit()
IsDigit(c) == c \in DecDigits \cup SuperDigits
\* [A-Za-z_] and [A-Za-z0-9_]
IsIdentStart(c) == c \in Lower \cup Upper \cup {"_"}
IsIdentChar(c) == c \in Lower \cup Upper \cup DecDigits \cup {"_"}

\* the Python str a character sequence stands for
RECURSIVE Str(_)
Str(s) == IF s = <<>> THEN "" ELSE Head(s) \o Str(Tail(s))

\* "".join over a list of strings
RECURSIVE Flatten(_)
Flatten(ss) == IF ss = <<>> THEN <<>> ELSE Head(ss) \o Flatten(Tail(ss))

StartsWith(s, p) == Len(s) >= Len(p) /\ SubSeq(s, 1, Len(p)) = p
EndsWith(s, p) == Len(s) >= Len(p) /\ SubSeq(s, Len(s) - Len(p) + 1, Len(s)) = p
Contains(s, c) == \E i \in 1..Len(s) : s[i] = c

\* the index after the run of word characters (of whitespace) that starts at i
RECURSIVE WordEnd(_, _)
WordEnd(s, i) == IF i > Len(s) \/ ~IsWordChar(s[i]) THEN i ELSE WordEnd(s, i + 1)
RECURSIVE SpaceEnd(_, _)
SpaceEnd(s, i) == IF i > Len(s) \/ ~IsSpace(s[i]) THEN i ELSE SpaceEnd(s, i + 1)

RECURSIVE RStrip(_)
RStrip(s) == IF s # <<>> /\ IsSpace(s[Len(s)]) THEN RStrip(SubSeq(s, 1, Len(s) - 1)) ELSE s
\* str.strip()
Strip(s) == RStrip(SubSeq(s, SpaceEnd(s, 1), Len(s)))

\* WHITESPACE_RE.sub(" ", s), read from index i
RECURSIVE WhitespaceSubFrom(_, _)
WhitespaceSubFrom(s, i) ==
    IF i > Len(s) THEN <<>>
    ELSE IF IsSpace(s[i]) THEN <<" ">> \o WhitespaceSubFrom(s, SpaceEnd(s, i))
    ELSE <<s[i]>> \o WhitespaceSubFrom(s, i + 1)
WHITESPACE_RE_sub(s) == WhitespaceSubFrom(s, 1)

\* POINTER_SPACING_RE.sub("*", s), read from index i
RECURSIVE PointerSpacingSubFrom(_, _)
PointerSpacingSubFrom(s, i) ==
    IF i > Len(s) THEN <<>>
    ELSE LET j == SpaceEnd(s, i) IN
         IF j <= Len(s) /\ s[j] = "*"
         THEN <<"*">> \o PointerSpacingSubFrom(s, SpaceEnd(s, j + 1))
         ELSE IF j > i THEN SubSeq(s, i, j - 1) \o PointerSpacingSubFrom(s, j)
         ELSE <<s[i]>> \o PointerSpacingSubFrom(s, i + 1)
POINTER_SPACING_RE_sub(s) == PointerSpacingSubFrom(s, 1)

\* MONO_[A-Z0-9_]+ as a whole word
IsMacroWord(w) ==
    /\ Len(w) >= 6
    /\ SubSeq(w, 1, 5) = <<"M", "O", "N", "O", "_">>
    /\ \A k \in 6..Len(w) : w[k] \in Upper \cup DecDigits \cup {"_"}
IsQualifierWord(w) ==
    w \in {<<"c", "o", "n", "s", "t">>,
           <<"v", "o", "l", "a", "t", "i", "l", "e">>,
           <<"r", "e", "s", "t", "r", "i", "c", "t">>}
IsStructEnumWord(w) == w \in {<<"s", "t", "r", "u", "c", "t">>, <<"e", "n", "u", "m">>}

\* A pattern \b(...)\b matches exactly the maximal runs of word characters
\* that spell one of its words.  kind: "macro" | "qualifier" | "structenum"
WordMatches(kind, w) ==
    CASE kind = "macro" -> IsMacroWord(w)
      [] kind = "qualifier" -> IsQualifierWord(w)
      [] kind = "structenum" -> IsStructEnumWord(w)

RECURSIVE WordSubFrom(_, _, _)
WordSubFrom(kind, s, i) ==
    IF i > Len(s) THEN <<>>
    ELSE IF IsWordChar(s[i])
    THEN LET j == WordEnd(s, i)
             w == SubSeq(s, i, j - 1)
         IN  IF WordMatches(kind, w)
             THEN IF kind = "structenum"
                  THEN WordSubFrom(kind, s, SpaceEnd(s, j))
                  ELSE <<" ">> \o WordSubFrom(kind, s, j)
             ELSE w \o WordSubFrom(kind, s, j)
    ELSE <<s[i]>> \o WordSubFrom(kind, s, i + 1)

\* MACRO_RE.sub(" ", s)
MACRO_RE_sub(s) == WordSubFrom("macro", s, 1)
\* re.sub(r"\b(const|volatile|restrict)\b", " ", s)
QUALIFIER_sub(s) == WordSubFrom("qualifier", s, 1)
\* STRUCT_ENUM_RE.sub("", s)
STRUCT_ENUM_RE_sub(s) == WordSubFrom("structenum", s, 1)

-----------------------------------------------------------------------------
(* normalize_type and map_native_type *)

NUMBER_TYPE_MAP ==
    ("void" :> "void") @@ ("bool" :> "bool") @@ ("_bool" :> "bool") @@
    ("boolean" :> "bool") @@ ("char" :> "char") @@ ("signedchar" :> "int") @@
    ("unsignedchar" :> "uchar") @@ ("short" :> "int") @@ ("shortint" :> "int") @@
    ("unsignedshort" :> "uint") @@ ("unsignedshortint" :> "uint") @@
    ("int" :> "int") @@ ("int32" :> "int") @@ ("long" :> "long") @@
    ("longint" :> "long") @@ ("unsignedlong" :> "ulong") @@
    ("unsignedlongint" :> "ulong") @@ ("unsignedint" :> "uint") @@
    ("uint" :> "uint") @@ ("uint32" :> "uint") @@ ("int64" :> "int64") @@
    ("unsignedint64" :> "uint64") @@ ("double" :> "double") @@
    ("float" :> "float") @@ ("size_t" :> "size_t") @@ ("time_t" :> "long")

GENERIC_INT_ALIASES ==
    ("mono_bool" :> "int") @@ ("mono_boolean" :> "int") @@
    ("mono_unichar2" :> "uint") @@ ("gunichar2" :> "uint") @@
    ("gboolean" :> "int") @@ ("gint" :> "int") @@ ("guint" :> "uint") @@
    ("gint32" :> "int") @@ ("guint32" :> "uint") @@ ("gint16" :> "int") @@
    ("guint16" :> "uint") @@ ("gint8" :> "int") @@ ("guint8" :> "uint") @@
    ("mono_string_hash" :> "uint") @@ ("mono_marshaltype" :> "int")

POINTER_SIZED_INTS ==
    {"intptr_t", "uintptr_t", "ssize_t", "gssize", "gsize", "ptrdiff_t"}

\* what a call returns when int() raises
ValueError == "ValueError"

normalize_type(t) ==
    Strip(WHITESPACE_RE_sub(POINTER_SPACING_RE_sub(
        STRUCT_ENUM_RE_sub(QUALIFIER_sub(Strip(t))))))

\* type_name.replace(" ", "").lower()
Canonical(t) ==
    LET nosp == SelectSeq(t, LAMBDA c : c # " ")
    IN  [i \in 1..Len(nosp) |-> IF nosp[i] \in Upper THEN LowerOf[nosp[i]] ELSE nosp[i]]

\* "".join(ch for ch in canonical if ch.isdigit())
DigitsOf(s) == SelectSeq(s, IsDigit)

\* int(digits), for digits that are all decimal
RECURSIVE IntOf(_)
IntOf(d) == IF d = <<>> THEN 0 ELSE 10 * IntOf(SubSeq(d, 1, Len(d) - 1)) + DecVal[d[Len(d)]]

\* a plausible slip: int(digits) >= 32
SuffixWidth_atLeast32(canonical, wide, narrow) ==
    LET digits == DigitsOf(canonical) IN
    IF digits = <<>> THEN narrow
    ELSE IF \E k \in 1..Len(digits) : digits[k] \notin DecDigits THEN ValueError
    ELSE IF IntOf(digits) >= 32 THEN wide
    ELSE narrow

\* the two suffix branches: digits and int(digits) > 32
SuffixWidth(canonical, wide, narrow) ==
    LET digits == DigitsOf(canonical) IN
    IF digits = <<>> THEN narrow
    ELSE IF \E k \in 1..Len(digits) : digits[k] \notin DecDigits THEN ValueError
    ELSE IF IntOf(digits) > 32 THEN wide
    ELSE narrow

\* a plausible slip: only a trailing "*" makes a pointer
IsPointerType_trailingOnly(t) == EndsWith(t, <<"*">>) \/ EndsWith(t, <<"]">>)

\* "*" in type_name or type_name.endswith("]")
IsPointerType(t) == Contains(t, "*") \/ EndsWith(t, <<"]">>)

\* a plausible slip: the primitive map consulted before the enum set
IsEnumType_afterPrimitives(t, enums) ==
    Str(t) \in enums /\ Str(Canonical(t)) \notin DOMAIN NUMBER_TYPE_MAP

\* type_name in enum_types
IsEnumType(t, enums) == Str(t) \in enums

map_native_type(t, enums) ==
    LET canonical == Canonical(t)
        key == Str(canonical)
    IN
    IF t = <<>> THEN "void"
    ELSE IF IsPointerType(t) THEN "pointer"
    ELSE IF IsEnumType(t, enums) THEN "int"
    ELSE IF key \in DOMAIN NUMBER_TYPE_MAP THEN NUMBER_TYPE_MAP[key]
    ELSE IF key \in DOMAIN GENERIC_INT_ALIASES THEN GENERIC_INT_ALIASES[key]
    ELSE IF key \in POINTER_SIZED_INTS
         THEN IF StartsWith(canonical, <<"u">>)
                 \/ StartsWith(canonical, <<"g", "s", "i", "z", "e">>)
              THEN "size_t" ELSE "long"
    ELSE IF EndsWith(canonical, <<"_", "t">>)
            /\ StartsWith(SubSeq(canonical, 1, Len(canonical) - 2), <<"u">>)
         THEN SuffixWidth(canonical, "uint64", "uint")
    ELSE IF EndsWith(canonical, <<"_", "t">>)
         THEN SuffixWidth(canonical, "int64", "int")
    ELSE IF key \in POINTER_SIZED_INTS
         THEN IF Contains(canonical, "u") THEN "size_t" ELSE "long"
    ELSE "pointer"

-----------------------------------------------------------------------------
(* parse_parameters *)

\* the scanning loop: the fragments between the depth-zero commas
RECURSIVE ScanParams(_, _, _, _, _)
ScanParams(s, i, depth, current, out) ==
    IF i > Len(s)
    THEN IF current # <<>> THEN Append(out, current) ELSE out
    ELSE IF s[i] = "(" THEN ScanParams(s, i + 1, depth + 1, Append(current, s[i]), out)
    ELSE IF s[i] = ")" THEN ScanParams(s, i + 1, depth - 1, Append(current, s[i]), out)
    ELSE IF s[i] = "," /\ depth = 0 THEN ScanParams(s, i + 1, depth, <<>>, Append(out, current))
    ELSE ScanParams(s, i + 1, depth, Append(current, s[i]), out)

\* a plausible slip: every comma separates, whatever the depth
RECURSIVE ScanEveryComma(_, _, _, _)
ScanEveryComma(s, i, current, out) ==
    IF i > Len(s)
    THEN IF current # <<>> THEN Append(out, current) ELSE out
    ELSE IF s[i] = "," THEN ScanEveryComma(s, i + 1, <<>>, Append(out, current))
    ELSE ScanEveryComma(s, i + 1, Append(current, s[i]), out)
SplitParams_everyComma(s) == ScanEveryComma(s, 1, <<>>, <<>>)

SplitParams(s) == ScanParams(s, 1, 0, <<>>, <<>>)

\* ARRAY_RE.sub("*", s), read from index i
RECURSIVE ArraySubFrom(_, _)
ArraySubFrom(s, i) ==
    IF i > Len(s) THEN <<>>
    ELSE IF s[i] = "[" /\ \E k \in (i + 1)..Len(s) : s[k] = "]"
    THEN LET close == CHOOSE k \in (i + 1)..Len(s) :
                          s[k] = "]" /\ \A m \in (i + 1)..(k - 1) : s[m] # "]"
         IN  <<"*">> \o ArraySubFrom(s, close + 1)
    ELSE <<s[i]>> \o ArraySubFrom(s, i + 1)
ARRAY_RE_sub(s) == ArraySubFrom(s, 1)

\* the start of the whitespace run that ends right before index e
RECURSIVE SpaceStart(_, _)
SpaceStart(s, e) == IF e > 1 /\ IsSpace(s[e - 1]) THEN SpaceStart(s, e - 1) ELSE e

\* DEFAULT_VALUE_RE.sub("", s): the pattern is anchored at the end, so it
\* matches from the first "=" that has a non-empty, comma-free rest
DEFAULT_VALUE_RE_sub(s) ==
    LET ok(e) == s[e] = "=" /\ e < Len(s) /\ \A k \in (e + 1)..Len(s) : s[k] # ","
    IN  IF \E e \in 1..Len(s) : ok(e)
        THEN LET e0 == CHOOSE e \in 1..Len(s) : ok(e) /\ \A f \in 1..(e - 1) : ~ok(f)
             IN  SubSeq(s, 1, SpaceStart(s, e0) - 1)
        ELSE s

\* str.split(" "), the field that starts at index i first
RECURSIVE SplitSpaceFrom(_, _, _)
SplitSpaceFrom(s, i, current) ==
    IF i > Len(s) THEN <<current>>
    ELSE IF s[i] = " " THEN <<current>> \o SplitSpaceFrom(s, i + 1, <<>>)
    ELSE SplitSpaceFrom(s, i + 1, Append(current, s[i]))
SplitSpace(s) == SplitSpaceFrom(s, 1, <<>>)

\* " ".join(tokens)
RECURSIVE JoinSpace(_)
JoinSpace(tokens) ==
    IF tokens = <<>> THEN <<>>
    ELSE IF Len(tokens) = 1 THEN tokens[1]
    ELSE tokens[1] \o <<" ">> \o JoinSpace(Tail(tokens))

\* the cleaning of one fragment up to the test for "..."
CleanParam(p) ==
    Strip(WHITESPACE_RE_sub(POINTER_SPACING_RE_sub(QUALIFIER_sub(
        DEFAULT_VALUE_RE_sub(ARRAY_RE_sub(MACRO_RE_sub(p)))))))

\* the type a cleaned fragment leaves: its last token, the name, dropped
TypePart(q) ==
    LET tokens == SplitSpace(q)
        kept == IF Len(tokens) > 1 THEN SubSeq(tokens, 1, Len(tokens) - 1) ELSE tokens
    IN  POINTER_SPACING_RE_sub(Strip(JoinSpace(kept)))

\* a plausible slip: the test for "..." left out
NormalizeParam_keepsVariadic(param) ==
    LET p == Strip(param) IN
    IF p = <<>> \/ p = <<"v", "o", "i", "d">> THEN <<>>
    ELSE LET type_part == TypePart(CleanParam(p)) IN
         IF type_part # <<>> THEN <<type_part>> ELSE <<>>

\* one pass of the second loop: the types (none or one) a fragment yields
NormalizeParam(param) ==
    LET p == Strip(param) IN
    IF p = <<>> \/ p = <<"v", "o", "i", "d">> THEN <<>>
    ELSE LET q == CleanParam(p) IN
         IF q = <<".", ".", ".">> THEN <<>>
         ELSE LET type_part == TypePart(q) IN
              IF type_part # <<>> THEN <<type_part>> ELSE <<>>

RECURSIVE NormalizeAll(_)
NormalizeAll(ps) ==
    IF ps = <<>> THEN <<>> ELSE NormalizeParam(Head(ps)) \o NormalizeAll(Tail(ps))

parse_parameters(s) ==
    IF s = <<>> \/ s = <<"v", "o", "i", "d">> THEN <<>>
    ELSE NormalizeAll(SplitParams(s))

-----------------------------------------------------------------------------
(* parse_function_declaration *)

None == [none |-> TRUE]

\* index of the first (last) occurrence of c in s; 0 when there is none
FirstIndex(s, c) ==
    IF Contains(s, c)
    THEN CHOOSE i \in 1..Len(s) : s[i] = c /\ \A k \in 1..(i - 1) : s[k] # c
    ELSE 0
LastIndex(s, c) ==
    IF Contains(s, c)
    THEN CHOOSE i \in 1..Len(s) : s[i] = c /\ \A k \in (i + 1)..Len(s) : s[k] # c
    ELSE 0

\* re.search(r"([A-Za-z_][A-Za-z0-9_]*)$", s): the start of the match, 0 for no match
NameStart(s) ==
    LET fits(i) == IsIdentStart(s[i]) /\ \A k \in (i + 1)..Len(s) : IsIdentChar(s[k])
    IN  IF \E i \in 1..Len(s) : fits(i)
        THEN CHOOSE i \in 1..Len(s) : fits(i) /\ \A k \in 1..(i - 1) : ~fits(k)
        ELSE 0

\* a plausible slip: the test for an empty return type left out
parse_function_declaration_anyReturn(decl) ==
    LET text == Strip(WHITESPACE_RE_sub(POINTER_SPACING_RE_sub(STRUCT_ENUM_RE_sub(
                    MACRO_RE_sub(Strip(WHITESPACE_RE_sub(decl)))))))
    IN
    IF ~Contains(text, "(") \/ ~Contains(text, ")") THEN None
    ELSE LET open == FirstIndex(text, "(")
             params_tail == SubSeq(text, open + 1, Len(text))
             close == LastIndex(params_tail, ")")
             params_raw == Strip(IF close = 0 THEN params_tail
                                 ELSE SubSeq(params_tail, 1, close - 1))
             before_params == Strip(SubSeq(text, 1, open - 1))
             at == NameStart(before_params)
         IN  IF at = 0 THEN None
             ELSE [name |-> SubSeq(before_params, at, Len(before_params)),
                   return_type |-> Strip(SubSeq(before_params, 1, at - 1)),
                   parameters |-> parse_parameters(params_raw)]

parse_function_declaration(decl) ==
    LET text == Strip(WHITESPACE_RE_sub(POINTER_SPACING_RE_sub(STRUCT_ENUM_RE_sub(
                    MACRO_RE_sub(Strip(WHITESPACE_RE_sub(decl)))))))
    IN
    IF ~Contains(text, "(") \/ ~Contains(text, ")") THEN None
    ELSE LET open == FirstIndex(text, "(")
             params_tail == SubSeq(text, open + 1, Len(text))
             close == LastIndex(params_tail, ")")
             params_raw == Strip(IF close = 0 THEN params_tail
                                 ELSE SubSeq(params_tail, 1, close - 1))
             before_params == Strip(SubSeq(text, 1, open - 1))
             at == NameStart(before_params)
         IN  IF at = 0 THEN None
             ELSE LET return_type == Strip(SubSeq(before_params, 1, at - 1)) IN
                  IF return_type = <<>> THEN None
                  ELSE [name |-> SubSeq(before_params, at, Len(before_params)),
                        return_type |-> return_type,
                        parameters |-> parse_parameters(params_raw)]

-----------------------------------------------------------------------------
(* Applying normalize_type and map_native_type to one type string *)

\* the most pieces a type string is put together from
MaxTypeParts == 3

\* the pieces: "int", "u", "g", "s", "size", "_t", "intptr", "ptrdiff", "32",
\* a superscript two, " ", "*", "Color"
TypeLexemes ==
    { <<"i", "n", "t">>,
      <<"u">>,
      <<"g">>,
      <<"s">>,
      <<"s", "i", "z", "e">>,
      <<"_", "t">>,
      <<"i", "n", "t", "p", "t", "r">>,
      <<"p", "t", "r", "d", "i", "f", "f">>,
      <<"3", "2">>,
      <<"^2">>,
      <<" ">>,
      <<"*">>,
      <<"C", "o", "l", "o", "r">> }

\* type spellings of the headers that the pieces do not reach:
\* "const enum Color *", "unsigned long int", "MonoOpaqueHandle", "uint64_t",
\* "Foo_T", "volatile struct Foo", "int[]", "time_t", "mono_bool", "gssize"
NotableTypes ==
    { <<"c", "o", "n", "s", "t", " ", "e", "n", "u", "m", " ", "C", "o", "l", "o", "r", " ", "*">>,
      <<"u", "n", "s", "i", "g", "n", "e", "d", " ", "l", "o", "n", "g", " ", "i", "n", "t">>,
      <<"M", "o", "n", "o", "O", "p", "a", "q", "u", "e", "H", "a", "n", "d", "l", "e">>,
      <<"u", "i", "n", "t", "6", "4", "_", "t">>,
      <<"F", "o", "o", "_", "T">>,
      <<"v", "o", "l", "a", "t", "i", "l", "e", " ", "s", "t", "r", "u", "c", "t", " ", "F", "o", "o">>,
      <<"i", "n", "t", "[", "]">>,
      <<"t", "i", "m", "e", "_", "t">>,
      <<"m", "o", "n", "o", "_", "b", "o", "o", "l">>,
      <<"g", "s", "s", "i", "z", "e">> }

\* the enum names a header may typedef: one that collides with nothing, and
\* keys of the primitive map, the alias map and the pointer-sized set
EnumPool == {"Color", "size_t", "gint", "gsize"}

\* every string made of at most n pieces
PiecesUpTo(lexemes, n) ==
    { Flatten(ps) : ps \in UNION { [1..k -> lexemes] : k \in 0..n } }

GenerateIdle ==
    /\ files = <<>> /\ pc = "idle" /\ include_files = <<>> /\ hi = 0 /\ di = 0
    /\ enum_types = {} /\ functions = <<>> /\ entries = <<>>
ClassifyIdle ==
    cpc = "idle" /\ type_name = <<>> /\ enum_set = {} /\ category = ""
ParamsIdle ==
    ppc = "idle" /\ param_text = <<>> /\ params = <<>> /\ normalized = <<>>

InitClassify ==
    /\ cpc = "raw"
    /\ type_name \in PiecesUpTo(TypeLexemes, MaxTypeParts) \cup NotableTypes
    /\ enum_set \in SUBSET EnumPool
    /\ category = ""
    /\ GenerateIdle /\ ParamsIdle

\* generate: return_type = normalize_type(decl.return_type)
NormalizeType ==
    /\ cpc = "raw"
    /\ type_name' = normalize_type(type_name)
    /\ cpc' = "norm"
    /\ UNCHANGED <<enum_set, category, genVars, parVars>>

\* map_native_type(type_name, enum_types), on a normalized or a raw string
ClassifyType ==
    /\ cpc \in {"raw", "norm"}
    /\ category' = map_native_type(type_name, enum_set)
    /\ cpc' = "done"
    /\ UNCHANGED <<type_name, enum_set, genVars, parVars>>

NextClassify == NormalizeType \/ ClassifyType
SpecClassify == InitClassify /\ [][NextClassify]_vars

-----------------------------------------------------------------------------
(* Applying parse_parameters to one parameter text *)

\* the most pieces a parameter text is put together from
MaxParamParts == 4

\* the pieces: "int a", ",", "(", ")", "void", "...", "const", "MONO_X",
\* " ", "[3]", "=0"
ParamLexemes ==
    { <<"i", "n", "t", " ", "a">>,
      <<",">>,
      <<"(">>,
      <<")">>,
      <<"v", "o", "i", "d">>,
      <<".", ".", ".">>,
      <<"c", "o", "n", "s", "t">>,
      <<"M", "O", "N", "O", "_", "X">>,
      <<" ">>,
      <<"[", "3", "]">>,
      <<"=", "0">> }

\* parameter texts of the headers that the pieces do not reach:
\* "void (*cb)(int, int), int x", "void* obj, const char* name",
\* "const char *fmt, ...", "MonoOpaqueHandle h"
NotableParams ==
    { <<"v", "o", "i", "d", " ", "(", "*", "c", "b", ")", "(", "i", "n", "t", ",", " ", "i", "n", "t", ")", ",", " ", "i", "n", "t", " ", "x">>,
      <<"v", "o", "i", "d", "*", " ", "o", "b", "j", ",", " ", "c", "o", "n", "s", "t", " ", "c", "h", "a", "r", "*", " ", "n", "a", "m", "e">>,
      <<"c", "o", "n", "s", "t", " ", "c", "h", "a", "r", " ", "*", "f", "m", "t", ",", " ", ".", ".", ".">>,
      <<"M", "o", "n", "o", "O", "p", "a", "q", "u", "e", "H", "a", "n", "d", "l", "e", " ", "h">> }

InitParams ==
    /\ ppc = "in"
    /\ param_text \in PiecesUpTo(ParamLexemes, MaxParamParts) \cup NotableParams
    /\ params = <<>>
    /\ normalized = <<>>
    /\ GenerateIdle /\ ClassifyIdle

\* if param_text in ("", "void"): return []
ReturnNoParams ==
    /\ ppc = "in"
    /\ param_text = <<>> \/ param_text = <<"v", "o", "i", "d">>
    /\ normalized' = parse_parameters(param_text)
    /\ ppc' = "done"
    /\ UNCHANGED <<param_text, params, genVars, clsVars>>

\* the first loop: scan for the depth-zero commas
ScanFragments ==
    /\ ppc = "in"
    /\ ~(param_text = <<>> \/ param_text = <<"v", "o", "i", "d">>)
    /\ params' = SplitParams(param_text)
    /\ ppc' = "split"
    /\ UNCHANGED <<param_text, normalized, genVars, clsVars>>

\* the second loop: clean each fragment and keep its type
NormalizeFragments ==
    /\ ppc = "split"
    /\ normalized' = parse_parameters(param_text)
    /\ ppc' = "done"
    /\ UNCHANGED <<param_text, params, genVars, clsVars>>

NextParams == ReturnNoParams \/ ScanFragments \/ NormalizeFragments
SpecParams == InitParams /\ [][NextParams]_vars

-----------------------------------------------------------------------------
(* generate *)

\* the characters of the model in code-point order
CodePoints ==
    << "\t", "\n", " ", "(", ")", "*", ",", ".", "0", "1", "2", "3", "4",
       "5", "6", "7", "8", "9", "=", "A", "B", "C", "D", "E", "F", "G",
       "H", "I", "J", "K", "L", "M", "N", "O", "P", "Q", "R", "S", "T",
       "U", "V", "W", "X", "Y", "Z", "[", "]", "_", "a", "b", "c", "d",
       "e", "f", "g", "h", "i", "j", "k", "l", "m", "n", "o", "p", "q",
       "r", "s", "t", "u", "v", "w", "x", "y", "z", "^2" >>
Ord(c) == CHOOSE i \in DOMAIN CodePoints : CodePoints[i] = c

\* a < b for two str (and for two paths of one directory)
RECURSIVE LexLess(_, _)
LexLess(a, b) ==
    IF b = <<>> THEN FALSE
    ELSE IF a = <<>> THEN TRUE
    ELSE IF Head(a) = Head(b) THEN LexLess(Tail(a), Tail(b))
    ELSE Ord(Head(a)) < Ord(Head(b))

RECURSIVE InsertSorted(_, _)
InsertSorted(xs, x) ==
    IF xs = <<>> THEN <<x>>
    ELSE IF LexLess(x, Head(xs)) THEN <<x>> \o xs
    ELSE <<Head(xs)>> \o InsertSorted(Tail(xs), x)

\* a plausible slip: the list used as glob yields it
sorted_asFound(xs) == xs

\* the builtin sorted(), on a list of str or of paths
RECURSIVE sorted(_)
sorted(xs) ==
    IF xs = <<>> THEN <<>>
    ELSE InsertSorted(sorted(SubSeq(xs, 1, Len(xs) - 1)), xs[Len(xs)])

\* the orders in which INCLUDE_DIR.glob("*.h") may yield a set of paths
Orders(S) ==
    { o \in [1..Cardinality(S) -> S] : \A i, j \in DOMAIN o : i # j => o[i] # o[j] }

\* decl.name.startswith("mono") or decl.name.startswith("monoeg")
IsKept(decl) ==
    \/ StartsWith(decl.name, <<"m", "o", "n", "o">>)
    \/ StartsWith(decl.name, <<"m", "o", "n", "o", "e", "g">>)

\* the dict generate builds for one declaration
Mapped(decl, enums) ==
    [name |-> decl.name,
     retType |-> map_native_type(normalize_type(decl.return_type), enums),
     argTypes |-> [k \in 1..Len(decl.parameters) |->
                      map_native_type(normalize_type(decl.parameters[k]), enums)]]

\* building the dict raised ValueError
Raised(mapped) ==
    \/ mapped.retType = ValueError
    \/ \E k \in 1..Len(mapped.argTypes) : mapped.argTypes[k] = ValueError

\* a plausible slip: functions[name] = mapped
Setdefault_overwrite(fs, mapped) ==
    IF \E k \in 1..Len(fs) : fs[k].name = mapped.name
    THEN [k \in 1..Len(fs) |-> IF fs[k].name = mapped.name THEN mapped ELSE fs[k]]
    ELSE Append(fs, mapped)

\* functions.setdefault(name, mapped), functions kept in insertion order
Setdefault(fs, mapped) ==
    IF \E k \in 1..Len(fs) : fs[k].name = mapped.name THEN fs ELSE Append(fs, mapped)

\* the two header paths, "a.h" and "ab.h"
PathA == <<"a", ".", "h">>
PathB == <<"a", "b", ".", "h">>

\* the most MONO_API declarations in the two headers together
MaxDecls == 2

\* the declarations the two headers draw from:
\*   "Color mono_get(void)"
\*   "int mono_get(Color c, ...)"
\*   "mono_bad(void)"              no return type
\*   "int mono_bad"                no parentheses
\*   "void g_free(void *p)"        not a mono name
DeclPool ==
    { <<"C", "o", "l", "o", "r", " ", "m", "o", "n", "o", "_", "g", "e", "t", "(", "v", "o", "i", "d", ")">>,
      <<"i", "n", "t", " ", "m", "o", "n", "o", "_", "g", "e", "t", "(", "C", "o", "l", "o", "r", " ", "c", ",", " ", ".", ".", ".", ")">>,
      <<"m", "o", "n", "o", "_", "b", "a", "d", "(", "v", "o", "i", "d", ")">>,
      <<"i", "n", "t", " ", "m", "o", "n", "o", "_", "b", "a", "d">>,
      <<"v", "o", "i", "d", " ", "g", "_", "f", "r", "e", "e", "(", "v", "o", "i", "d", " ", "*", "p", ")">> }

\* the enum names a header typedefs
EnumNames == {"Color"}

PoolHeaders ==
    UNION { { (PathA :> [enums |-> ea, decls |-> da]) @@ (PathB :> [enums |-> eb, decls |-> db]) :
                ea \in SUBSET EnumNames, eb \in SUBSET EnumNames,
                da \in [1..k[1] -> DeclPool], db \in [1..k[2] -> DeclPool] } :
            k \in { kk \in (0..MaxDecls) \X (0..MaxDecls) : kk[1] + kk[2] <= MaxDecls } }

\* the most pieces a single declaration is put together from
MaxDeclParts == 4

\* the pieces: "int ", "mono_f", "(", ")", "9", "struct ", "u^2_t "
DeclLexemes ==
    { <<"i", "n", "t", " ">>,
      <<"m", "o", "n", "o", "_", "f">>,
      <<"(">>,
      <<")">>,
      <<"9">>,
      <<"s", "t", "r", "u", "c", "t", " ">>,
      <<"u", "^2", "_", "t", " ">> }

\* one header holding one declaration put together from the pieces
PieceHeaders ==
    { (PathA :> [enums |-> {}, decls |-> <<d>>]) : d \in PiecesUpTo(DeclLexemes, MaxDeclParts) }

Init ==
    /\ files \in PoolHeaders \cup PieceHeaders
    /\ pc = "start"
    /\ include_files = <<>>
    /\ hi = 0
    /\ di = 0
    /\ enum_types = {}
    /\ functions = <<>>
    /\ entries = <<>>
    /\ ClassifyIdle /\ ParamsIdle

\* include_files = sorted(INCLUDE_DIR.glob("*.h")); enum_types = set(); functions = {}
ListHeaders ==
    /\ pc = "start"
    /\ \E found \in Orders(DOMAIN files) : include_files' = sorted(found)
    /\ hi' = 1
    /\ pc' = "header"
    /\ UNCHANGED <<files, di, enum_types, functions, entries, clsVars, parVars>>

\* one pass of the loop over the headers, up to its inner loop:
\* enum_types.update(collect_enum_types(sanitized))
ReadHeader ==
    /\ pc = "header"
    /\ hi <= Len(include_files)
    /\ enum_types' = enum_types \cup files[include_files[hi]].enums
    /\ di' = 1
    /\ pc' = "decls"
    /\ UNCHANGED <<files, include_files, hi, functions, entries, clsVars, parVars>>

\* one pass of the loop over parse_functions(sanitized)
EachDeclaration ==
    /\ pc = "decls"
    /\ di <= Len(files[include_files[hi]].decls)
    /\ \E decl \in {parse_function_declaration(files[include_files[hi]].decls[di])} :
       IF decl = None \/ ~IsKept(decl)
       THEN /\ functions' = functions
            /\ pc' = pc
       ELSE \E mapped \in {Mapped(decl, enum_types)} :
            IF Raised(mapped)
            THEN /\ functions' = functions
                 /\ pc' = "failed"
            ELSE /\ functions' = Setdefault(functions, mapped)
                 /\ pc' = pc
    /\ di' = di + 1
    /\ UNCHANGED <<files, include_files, hi, enum_types, entries, clsVars, parVars>>

\* the inner loop is exhausted: on to the next header
NextHeader ==
    /\ pc = "decls"
    /\ di > Len(files[include_files[hi]].decls)
    /\ hi' = hi + 1
    /\ pc' = "header"
    /\ UNCHANGED <<files, include_files, di, enum_types, functions, entries, clsVars, parVars>>

\* the loop over the headers is exhausted: entries in sorted(functions) order
WriteOutput ==
    /\ pc = "header"
    /\ hi > Len(include_files)
    /\ entries' = sorted([k \in 1..Len(functions) |-> functions[k].name])
    /\ pc' = "done"
    /\ UNCHANGED <<files, include_files, hi, di, enum_types, functions, clsVars, parVars>>

Next == ListHeaders \/ ReadHeader \/ EachDeclaration \/ NextHeader \/ WriteOutput
Spec == Init /\ [][Next]_vars

-----------------------------------------------------------------------------
(* Properties of map_native_type, checked under SpecClassify *)

Categories ==
    {"void", "bool", "char", "uchar", "int", "uint", "long", "ulong",
     "int64", "uint64", "float", "double", "size_t", "pointer"}

\* the lower-cased, space-free form of the classified type, as a str
CanonicalKey == Str(Canonical(type_name))
InATable ==
    \/ CanonicalKey \in DOMAIN NUMBER_TYPE_MAP
    \/ CanonicalKey \in DOMAIN GENERIC_INT_ALIASES
    \/ CanonicalKey \in POINTER_SIZED_INTS
EndsIn_t == EndsWith(Canonical(type_name), <<"_", "t">>)

\* C4: a non-empty type string that contains "*" is classified pointer,
\* whatever the enum set and whatever the base name.
C4_PointerPrecedence ==
    (cpc = "done" /\ type_name # <<>> /\ Contains(type_name, "*"))
        => category = "pointer"

\* "const enum Color *" normalizes to "Color*": classified pointer with
\* Color a registered enum
C4_Witness ==
    /\ cpc = "done"
    /\ Str(type_name) = "Color*"
    /\ "Color" \in enum_set
    /\ category = "pointer"

\* C5: a non-empty, pointer-free type name that is an exact member of the
\* enum set is classified int, also when its canonical form is a key of a
\* table or ends in _t.
C5_EnumBeforeTables ==
    (cpc = "done" /\ type_name # <<>> /\ ~Contains(type_name, "*")
        /\ Str(type_name) \in enum_set)
        => category = "int"

\* an enum named size_t: a key of the primitive map that ends in _t
C5_Witness ==
    /\ cpc = "done"
    /\ Str(type_name) = "size_t"
    /\ "size_t" \in enum_set
    /\ category = "int"

\* C6: map_native_type returns one of the fourteen categories for every
\* type string and every enum set and never fails; a non-empty type with no
\* "*" that is no enum, matches no table and does not end in _t is pointer.
C6_TotalOverCategories ==
    cpc = "done" =>
        /\ category \in Categories
        /\ (type_name # <<>> /\ ~Contains(type_name, "*")
              /\ Str(type_name) \notin enum_set /\ ~InATable /\ ~EndsIn_t)
             => category = "pointer"

\* the digit characters embedded in the canonical form
EmbeddedDigits == SelectSeq(Canonical(type_name), IsDigit)
DigitsAreDecimal == \A k \in 1..Len(EmbeddedDigits) : EmbeddedDigits[k] \in DecDigits
\* the number the decimal digits among them spell (0 for none)
EmbeddedWidth == IntOf(SelectSeq(EmbeddedDigits, LAMBDA c : c \in DecDigits))

\* the suffix heuristic of the claim
HeuristicCategory ==
    IF StartsWith(Canonical(type_name), <<"u">>)
    THEN IF EmbeddedWidth > 32 THEN "uint64" ELSE "uint"
    ELSE IF EmbeddedWidth > 32 THEN "int64" ELSE "int"

\* the lookup order of the claim, for a pointer-sized set S whose members U
\* look unsigned
LookupOrder(S, U, heuristic) ==
    IF CanonicalKey \in DOMAIN NUMBER_TYPE_MAP
    THEN category = NUMBER_TYPE_MAP[CanonicalKey]
    ELSE IF CanonicalKey \in DOMAIN GENERIC_INT_ALIASES
    THEN category = GENERIC_INT_ALIASES[CanonicalKey]
    ELSE IF CanonicalKey \in S
    THEN category = (IF CanonicalKey \in U THEN "size_t" ELSE "long")
    ELSE EndsIn_t => category = heuristic

\* a classified type that is non-empty, pointer-free and no enum
IntegerLookupCase ==
    /\ cpc = "done" /\ type_name # <<>> /\ ~Contains(type_name, "*")
    /\ Str(type_name) \notin enum_set

-----------------------------------------------------------------------------
(* Properties of parse_parameters, checked under SpecParams *)

\* the parenthesis depth in front of index i: "(" seen less ")" seen
DepthAt(s, i) ==
    Cardinality({k \in 1..(i - 1) : s[k] = "("})
        - Cardinality({k \in 1..(i - 1) : s[k] = ")"})
Balanced(s) ==
    /\ DepthAt(s, Len(s) + 1) = 0
    /\ \A i \in 1..Len(s) : DepthAt(s, i) >= 0
\* the indices of the depth-zero commas, in increasing order
DepthZeroCommas(s) ==
    SelectSeq([i \in 1..Len(s) |-> i], LAMBDA i : s[i] = "," /\ DepthAt(s, i) = 0)

\* the substrings between consecutive depth-zero commas, in order
SubstringsBetweenCommas(s) ==
    LET cuts == <<0>> \o DepthZeroCommas(s) \o <<Len(s) + 1>>
    IN  [k \in 1..(Len(cuts) - 1) |-> SubSeq(s, cuts[k] + 1, cuts[k + 1] - 1)]

\* the same, less an empty last substring
LessEmptyLast(fs) ==
    IF fs[Len(fs)] = <<>> THEN SubSeq(fs, 1, Len(fs) - 1) ELSE fs

\* C9 as stated: for a parameter text with balanced parentheses the
\* fragments of the scan are exactly the substrings between consecutive
\* depth-zero commas, in order.
C9_AsStated ==
    (ppc = "split" /\ Balanced(param_text))
        => params = SubstringsBetweenCommas(param_text)

\* C9, amended: as stated, except that an empty substring after the last
\* depth-zero comma (a text that ends in such a comma) is no fragment.
C9_DepthAwareSplit ==
    (ppc = "split" /\ Balanced(param_text))
        => params = LessEmptyLast(SubstringsBetweenCommas(param_text))

\* a function-pointer parameter with commas of its own stays one fragment
C9_Witness ==
    /\ ppc = "split"
    /\ Balanced(param_text)
    /\ Len(params) = 2
    /\ Contains(params[1], ",")
    /\ Contains(params[1], "(")

\* a fragment that is empty, "void" or "..." once trimmed
IsDroppedFragment(f) == Strip(f) \in {<<>>, <<"v", "o", "i", "d">>, <<".", ".", ".">>}
\* a fragment that is empty or "..." once its macro tokens, array brackets,
\* default value and qualifier keywords are cleaned away
IsCleanedAway(f) ==
    LET q == CleanParam(Strip(f)) IN q = <<>> \/ q = <<".", ".", ".">>

\* what each of the fragments fs yields on its own, in order
YieldOfFragments(fs) == [k \in 1..Len(fs) |-> parse_parameters(fs[k])]

-----------------------------------------------------------------------------
(* Properties of generate, checked under Spec *)

\* the declarations of headers F read in the order `order`: <<header, index>>
Positions(F, order) ==
    UNION { {<<h, i>> : i \in 1..Len(F[order[h]].decls)} : h \in 1..Len(order) }
Before(p, q) == p[1] < q[1] \/ (p[1] = q[1] /\ p[2] < q[2])
TextAt(F, order, pos) == F[order[pos[1]]].decls[pos[2]]
DeclAt(F, order, pos) == parse_function_declaration(TextAt(F, order, pos))
IsKeptAt(F, order, pos) ==
    DeclAt(F, order, pos) # None /\ IsKept(DeclAt(F, order, pos))

\* the enum names typedef'd in the headers up to and including the h-th
EnumsUpTo(F, order, h) == UNION {F[order[k]].enums : k \in 1..h}

\* the first kept declaration of name n among the positions P
FirstOf(F, order, P, n) ==
    CHOOSE pos \in P :
        /\ IsKeptAt(F, order, pos) /\ DeclAt(F, order, pos).name = n
        /\ \A q \in P : (IsKeptAt(F, order, q) /\ DeclAt(F, order, q).name = n)
                            => (q = pos \/ Before(pos, q))

\* the signature computed from the declaration at pos when it is read
EntryAt(F, order, pos) ==
    Mapped(DeclAt(F, order, pos), EnumsUpTo(F, order, pos[1]))

RegistryNames == {functions[k].name : k \in 1..Len(functions)}

\* every declaration of the headers, parsed: position -> FunctionDecl or None
Decls(F, order) == [pos \in Positions(F, order) |-> DeclAt(F, order, pos)]
\* the positions among P whose declaration is kept
KeptIn(D, P) == {pos \in P : D[pos] # None /\ IsKept(D[pos])}
\* the first of the kept positions K that declares name n
FirstKept(D, K, n) ==
    CHOOSE pos \in K :
        /\ D[pos].name = n
        /\ \A q \in K : D[q].name = n => (q = pos \/ Before(pos, q))

\* the registry holds one entry per kept name among the positions P, and it
\* is the signature of the first declaration of that name
RegistryIsFirstOccurrences(F, order, P) ==
    \A D \in {Decls(F, order)} : \A K \in {KeptIn(D, P)} :
        /\ RegistryNames = {D[pos].name : pos \in K}
        /\ \A j, k \in 1..Len(functions) : functions[j].name = functions[k].name => j = k
        /\ \A k \in 1..Len(functions) :
              \A pos \in {FirstKept(D, K, functions[k].name)} :
                  functions[k] = Mapped(D[pos], EnumsUpTo(F, order, pos[1]))

\* the declarations the run has been through (the one that raised excepted)
Processed ==
    {pos \in Positions(files, include_files) :
        \/ pos[1] < hi
        \/ pos[1] = hi /\ pc = "decls" /\ pos[2] < di
        \/ pos[1] = hi /\ pc = "failed" /\ pos[2] < di - 1}

\* two kept declarations of one name, the later one with another signature
IsRedeclaredDifferently(F, order, P) ==
    \E p1, p2 \in P :
        /\ Before(p1, p2)
        /\ IsKeptAt(F, order, p1) /\ IsKeptAt(F, order, p2)
        /\ DeclAt(F, order, p1).name = DeclAt(F, order, p2).name
        /\ EntryAt(F, order, p1) # EntryAt(F, order, p2)

\* C2: first occurrence wins.  At every point of the run the entry of each
\* name is the signature computed from the first declaration of that name
\* in traversal order; a later declaration of a present name, in the same
\* header or a later one, changes no entry and adds none.
C2_FirstOccurrenceWins ==
    RegistryIsFirstOccurrences(files, include_files, Processed)

\* a name was declared again with another signature, and the run went on
C2_Witness ==
    /\ pc = "done"
    /\ Len(functions) = 1
    /\ IsRedeclaredDifferently(files, include_files, Processed)

\* the headers in ascending path order
PathOrder ==
    CHOOSE o \in Orders(DOMAIN files) :
        \A i, j \in DOMAIN o : i < j => LexLess(o[i], o[j])

\* C3: determinism under file order.  Whatever the order the headers are
\* found in, the final registry is the one of the headers taken in
\* lexicographic path order (for a name declared differently in two headers,
\* the entry of the header that comes first in that order), and the output
\* lists the names in ascending order.
C3_DeterministicUnderFileOrder ==
    pc = "done" =>
        /\ RegistryIsFirstOccurrences(files, PathOrder, Positions(files, PathOrder))
        /\ {entries[k] : k \in 1..Len(entries)} = RegistryNames
        /\ \A j, k \in 1..Len(entries) : j < k => LexLess(entries[j], entries[k])

\* both headers declare one name, with different signatures
C3_Witness ==
    /\ pc = "done"
    /\ \E p1, p2 \in Positions(files, PathOrder) :
          /\ p1[1] = 1 /\ p2[1] = 2
          /\ IsKeptAt(files, PathOrder, p1) /\ IsKeptAt(files, PathOrder, p2)
          /\ DeclAt(files, PathOrder, p1).name = DeclAt(files, PathOrder, p2).name
          /\ EntryAt(files, PathOrder, p1) # EntryAt(files, PathOrder, p2)
          /\ functions = <<EntryAt(files, PathOrder, p1)>>

\* the enum names typedef'd in header p only
OnlyIn(p) ==
    files[p].enums \ UNION {files[q].enums : q \in DOMAIN files \ {p}}

\* C1: the enum set is complete before any declaration is classified.  A
\* kept function of header A whose return type or parameter type is the bare
\* name of an enum typedef'd only in header B has int at that position,
\* whichever of A and B is read first.
C1_EnumSetComplete ==
    pc = "done" =>
        \A pos \in Positions(files, include_files) :
            LET A == include_files[pos[1]]
                decl == DeclAt(files, include_files, pos)
                elsewhere == UNION {OnlyIn(B) : B \in DOMAIN files \ {A}}
            IN  (/\ IsKeptAt(files, include_files, pos)
                 /\ pos = FirstOf(files, include_files,
                                  Positions(files, include_files), decl.name))
                => \A k \in 1..Len(functions) :
                      functions[k].name = decl.name =>
                        /\ Str(decl.return_type) \in elsewhere
                              => functions[k].retType = "int"
                        /\ \A a \in 1..Len(decl.parameters) :
                              Str(decl.parameters[a]) \in elsewhere
                                  => functions[k].argTypes[a] = "int"

\* [A-Za-z_][A-Za-z0-9_]*
IsIdentifier(s) ==
    /\ s # <<>>
    /\ IsIdentStart(s[1])
    /\ \A k \in 1..Len(s) : IsIdentChar(s[k])

\* a declaration with no "(" or no ")", with no trailing identifier before
\* the first "(", or with nothing but that identifier before the first "("
IsUnparseable(d) ==
    \/ ~Contains(d, "(")
    \/ ~Contains(d, ")")
    \/ LET before == Strip(SubSeq(d, 1, FirstIndex(d, "(") - 1))
       IN  \/ NameStart(before) = 0
           \/ Strip(SubSeq(before, 1, NameStart(before) - 1)) = <<>>

\* the headers less their unparseable declarations
WithoutUnparseable ==
    [p \in DOMAIN files |->
        [enums |-> files[p].enums,
         decls |-> SelectSeq(files[p].decls, LAMBDA d : ~IsUnparseable(d))]]

\* C8: an unparseable declaration is dropped and the run continues.  Of the
\* declarations a run starts with, an unparseable one yields no FunctionDecl
\* and every FunctionDecl has an identifier for a name and a non-empty
\* return type; an unparseable declaration never ends the run, and the
\* final registry is the one of the same headers without it.
C8_UnparseableDropped ==
    /\ pc = "start" =>
          \A p \in DOMAIN files : \A i \in 1..Len(files[p].decls) :
              \A decl \in {parse_function_declaration(files[p].decls[i])} :
                  /\ IsUnparseable(files[p].decls[i]) => decl = None
                  /\ decl # None => IsIdentifier(decl.name) /\ decl.return_type # <<>>
    /\ pc = "failed" => ~IsUnparseable(files[include_files[hi]].decls[di - 1])
    /\ pc = "done" =>
          RegistryIsFirstOccurrences(WithoutUnparseable, include_files,
              Positions(WithoutUnparseable, include_files))

\* a run that met an unparseable declaration and registered another one
C8_Witness ==
    /\ pc = "done"
    /\ \E p \in DOMAIN files : \E i \in 1..Len(files[p].decls) :
          IsUnparseable(files[p].decls[i])
    /\ Len(functions) >= 1

====
